---- MODULE Spec2Model ----
(***************************************************************************)
(* The ten REST views of leverxcourses/main/views.py over the five models  *)
(* Course, Lecture, LectureTask, TaskControl and TaskComments.             *)
(*                                                                         *)
(* Callers are authenticated users who pass the view's permission_classes  *)
(* (permissions.py is not part of the sources).  Each handler is one       *)
(* action, except CourseList.post, whose two database writes (line 39 and  *)
(* line 40) are two steps: the code opens no transaction around them.      *)
(* Every action records the response it sends in resp.  A row is its       *)
(* primary key, its foreign key and, for a Course, its users; the plain    *)
(* fields of a row are not modelled.                                       *)
(***************************************************************************)
EXTENDS Integers, FiniteSets

VARIABLES db, nextId, created, posting, creator, resp

vars == <<db, nextId, created, posting, creator, resp>>

\* ---------------------------------------------------------------- bounds
MaxId == 2

MaxCreated == 1

Users == {"u1", "u2"}
Ids == 1..MaxId
Models == {"Course", "Lecture", "LectureTask", "TaskControl", "TaskComments"}
\* Request bodies: ok is whether the plain fields pass the serializer's field
\* validation; fk is the primary key the body names for the serializer's
\* foreign key (CourseSerializer has none).
Body(serializer) ==
    IF serializer = "CourseSerializer"
    THEN {b \in [ok : BOOLEAN, fk : Ids] : b.fk = 1}
    ELSE {b \in [ok : BOOLEAN, fk : Ids] : ~b.ok => b.fk = 1}

\* ---------------------------------------------------------------- helpers
EmptyTable == [k \in {} |-> 0]

Insert(table, pk, row) ==
    [k \in DOMAIN table \cup {pk} |-> IF k = pk THEN row ELSE table[k]]

Keep(table, pks) == [k \in DOMAIN table \cap pks |-> table[k]]

\* ---------------------------------------------------------------- querysets
QuerySet(pks) == [err |-> FALSE, rows |-> pks]

FieldError == [err |-> TRUE, rows |-> {}]

course_users(c) == db.Course[c].users

lecture_course_users(l) == course_users(db.Lecture[l].course)

task_lecture_course_users(t) == lecture_course_users(db.LectureTask[t].lecture)

taskcontrol_task_lecture_course_users(tc) ==
    task_lecture_course_users(db.TaskControl[tc].task)

CourseList_get_queryset(user) ==
    QuerySet({c \in DOMAIN db.Course : user \in course_users(c)})

CourseDetail_get_queryset(user) ==
    QuerySet({c \in DOMAIN db.Course : user \in course_users(c)})

\* Faulty variant of LectureList.get_queryset: the filter is left out.
LectureList_get_queryset_unfiltered(user) == QuerySet(DOMAIN db.Lecture)

LectureList_get_queryset(user) ==
    QuerySet({l \in DOMAIN db.Lecture : user \in lecture_course_users(l)})

LectureDetail_get_queryset(user) ==
    QuerySet({l \in DOMAIN db.Lecture : user \in lecture_course_users(l)})

TaskList_get_queryset(user) ==
    QuerySet({t \in DOMAIN db.LectureTask : user \in task_lecture_course_users(t)})

TaskDetail_get_queryset(user) ==
    QuerySet({t \in DOMAIN db.LectureTask : user \in task_lecture_course_users(t)})

\* Faulty variant of TaskControlList.get_queryset: the filter is left out.
TaskControlList_get_queryset_unfiltered(user) == QuerySet(DOMAIN db.TaskControl)

TaskControlList_get_queryset(user) ==
    QuerySet({tc \in DOMAIN db.TaskControl :
                 user \in taskcontrol_task_lecture_course_users(tc)})

TaskControlDetail_get_queryset(user) ==
    QuerySet({tc \in DOMAIN db.TaskControl :
                 user \in taskcontrol_task_lecture_course_users(tc)})

TaskCommentsList_get_queryset(user) ==
    QuerySet({cm \in DOMAIN db.TaskComments :
                 user \in taskcontrol_task_lecture_course_users(
                              db.TaskComments[cm].taskcontrol)})

\* TaskComments has the foreign key taskcontrol and no field task: the lookup
\* task__lecture__course__users cannot be resolved and filter() raises.
TaskCommentsDetail_get_queryset(user) == FieldError

\* ---------------------------------------------------------------- serializers
Meta_model(serializer) ==
    CASE serializer = "CourseSerializer" -> "Course"
      [] serializer = "LectureSerializer" -> "Lecture"
      [] serializer = "TaskSerializer" -> "LectureTask"
      [] serializer = "TaskControlSerializer" -> "TaskControl"

\* The model a serializer's foreign-key field points to.
RelatedModel(serializer) ==
    CASE serializer = "LectureSerializer" -> "Course"
      [] serializer = "TaskSerializer" -> "Lecture"
      [] serializer = "TaskControlSerializer" -> "LectureTask"

is_valid(serializer, body) ==
    /\ body.ok
    /\ serializer # "CourseSerializer" => body.fk \in DOMAIN db[RelatedModel(serializer)]

\* serializer.save() without an instance: the row of Meta.model it inserts.
NewRow(serializer, body) ==
    CASE serializer = "CourseSerializer" -> [users |-> {}]
      [] serializer = "LectureSerializer" -> [course |-> body.fk]
      [] serializer = "TaskSerializer" -> [lecture |-> body.fk]
      [] serializer = "TaskControlSerializer" -> [task |-> body.fk]

\* serializer.save() with an instance of model: the validated foreign key is
\* set on the row; a field the model does not have is not stored.
UpdatedRow(serializer, model, row, body) ==
    CASE model = "Course" -> row
      [] model = "Lecture" -> [row EXCEPT !.course = body.fk]
      [] model = "LectureTask" -> [row EXCEPT !.lecture = body.fk]
      [] model = "TaskControl" ->
             IF Meta_model(serializer) = "TaskControl"
             THEN [row EXCEPT !.task = body.fk]
             ELSE row
      [] model = "TaskComments" -> row

\* ---------------------------------------------------------------- deletion
\* on_delete=CASCADE along the ownership chain.
CascadeFrom(model, pk) ==
    LET cs == IF model = "Course" THEN {pk} ELSE {}
        ls == IF model = "Lecture" THEN {pk}
              ELSE {l \in DOMAIN db.Lecture : db.Lecture[l].course \in cs}
        ts == IF model = "LectureTask" THEN {pk}
              ELSE {t \in DOMAIN db.LectureTask : db.LectureTask[t].lecture \in ls}
        tcs == IF model = "TaskControl" THEN {pk}
               ELSE {tc \in DOMAIN db.TaskControl : db.TaskControl[tc].task \in ts}
        cms == IF model = "TaskComments" THEN {pk}
               ELSE {cm \in DOMAIN db.TaskComments :
                        db.TaskComments[cm].taskcontrol \in tcs}
    IN  [Course |-> cs, Lecture |-> ls, LectureTask |-> ts,
         TaskControl |-> tcs, TaskComments |-> cms]

Deleted(model, pk) ==
    LET gone == CascadeFrom(model, pk)
    IN  [m \in Models |-> Keep(db[m], DOMAIN db[m] \ gone[m])]

\* ---------------------------------------------------------------- responses
Response(op, user, pk, status, rows, valid, listed) ==
    [op |-> op, user |-> user, pk |-> pk, status |-> status, rows |-> rows,
     valid |-> valid, listed |-> listed]

NoResponse == Response("none", "u1", 0, 0, {}, TRUE, FALSE)

Unchanged == UNCHANGED <<db, nextId, created, posting, creator>>

\* ---------------------------------------------------------------- mixins
\* ListModelMixin.list
list(op, user, queryset) ==
    /\ resp' = IF queryset.err
               THEN Response(op, user, 0, 500, {}, TRUE, FALSE)
               ELSE Response(op, user, 0, 200, queryset.rows, TRUE, FALSE)
    /\ Unchanged

\* CreateModelMixin.create
create(op, user, serializer, body) ==
    IF ~is_valid(serializer, body)
    THEN /\ resp' = Response(op, user, 0, 400, {}, FALSE, FALSE)
         /\ Unchanged
    ELSE LET model == Meta_model(serializer)
             pk == nextId[model]
         IN  /\ pk <= MaxId /\ created < MaxCreated
             /\ db' = [db EXCEPT ![model] = Insert(@, pk, NewRow(serializer, body))]
             /\ nextId' = [nextId EXCEPT ![model] = pk + 1]
             /\ created' = created + 1
             /\ resp' = Response(op, user, pk, 201, {}, TRUE, FALSE)
             /\ UNCHANGED <<posting, creator>>

\* RetrieveModelMixin.retrieve
retrieve(op, user, queryset, listed, pk) ==
    /\ resp' = IF queryset.err THEN Response(op, user, pk, 500, {}, TRUE, listed)
               ELSE IF pk \notin queryset.rows
               THEN Response(op, user, pk, 404, {}, TRUE, listed)
               ELSE Response(op, user, pk, 200, {pk}, TRUE, listed)
    /\ Unchanged

\* Faulty variant of update: the body is validated before the row is looked up.
update_validates_first(op, user, queryset, listed, serializer, model, pk, body) ==
    LET valid == is_valid(serializer, body)
    IN  IF ~valid
        THEN /\ resp' = Response(op, user, pk, 400, {}, valid, listed)
             /\ Unchanged
        ELSE IF queryset.err
        THEN /\ resp' = Response(op, user, pk, 500, {}, valid, listed)
             /\ Unchanged
        ELSE IF pk \notin queryset.rows
        THEN /\ resp' = Response(op, user, pk, 404, {}, valid, listed)
             /\ Unchanged
        ELSE /\ db' = [db EXCEPT ![model][pk] =
                           UpdatedRow(serializer, model, @, body)]
             /\ resp' = Response(op, user, pk, 200, {pk}, valid, listed)
             /\ UNCHANGED <<nextId, created, posting, creator>>

\* UpdateModelMixin.update: get_object() comes before is_valid().
update(op, user, queryset, listed, serializer, model, pk, body) ==
    LET valid == is_valid(serializer, body)
    IN  IF queryset.err
        THEN /\ resp' = Response(op, user, pk, 500, {}, valid, listed)
             /\ Unchanged
        ELSE IF pk \notin queryset.rows
        THEN /\ resp' = Response(op, user, pk, 404, {}, valid, listed)
             /\ Unchanged
        ELSE IF ~valid
        THEN /\ resp' = Response(op, user, pk, 400, {}, valid, listed)
             /\ Unchanged
        ELSE /\ db' = [db EXCEPT ![model][pk] =
                           UpdatedRow(serializer, model, @, body)]
             /\ resp' = Response(op, user, pk, 200, {pk}, valid, listed)
             /\ UNCHANGED <<nextId, created, posting, creator>>

\* Faulty variant of destroy: 204 is answered and the row is left in place.
destroy_keeps_row(op, user, queryset, listed, model, pk) ==
    IF queryset.err
    THEN /\ resp' = Response(op, user, pk, 500, {}, TRUE, listed)
         /\ Unchanged
    ELSE IF pk \notin queryset.rows
    THEN /\ resp' = Response(op, user, pk, 404, {}, TRUE, listed)
         /\ Unchanged
    ELSE /\ resp' = Response(op, user, pk, 204, {}, TRUE, listed)
         /\ Unchanged

\* DestroyModelMixin.destroy
destroy(op, user, queryset, listed, model, pk) ==
    IF queryset.err
    THEN /\ resp' = Response(op, user, pk, 500, {}, TRUE, listed)
         /\ Unchanged
    ELSE IF pk \notin queryset.rows
    THEN /\ resp' = Response(op, user, pk, 404, {}, TRUE, listed)
         /\ Unchanged
    ELSE /\ db' = Deleted(model, pk)
         /\ creator' = Keep(creator, DOMAIN db'.Course)
         /\ resp' = Response(op, user, pk, 204, {}, TRUE, listed)
         /\ UNCHANGED <<nextId, created, posting>>

\* APIView.http_method_not_allowed: the view class defines no handler.
http_method_not_allowed(op, user, listed, pk) ==
    /\ resp' = Response(op, user, pk, 405, {}, TRUE, listed)
    /\ Unchanged

\* ---------------------------------------------------------------- Course
CourseList_get(user) ==
    list("CourseList.get", user, CourseList_get_queryset(user))

\* CourseList.post up to and including serializer.save().
CourseList_post_save(user, body) ==
    IF ~is_valid("CourseSerializer", body)
    THEN /\ resp' = Response("CourseList.post", user, 0, 400, {}, FALSE, FALSE)
         /\ Unchanged
    ELSE LET pk == nextId.Course
         IN  /\ pk <= MaxId /\ created < MaxCreated
             /\ db' = [db EXCEPT !.Course =
                           Insert(@, pk, NewRow("CourseSerializer", body))]
             /\ nextId' = [nextId EXCEPT !.Course = pk + 1]
             /\ posting' = posting \cup {[user |-> user, pk |-> pk]}
             /\ created' = created + 1
             /\ creator' = Insert(creator, pk, user)
             /\ resp' = Response("CourseList.post", user, pk, 0, {}, TRUE, FALSE)

\* Faulty variant of line 40: the requesting user is not added.
users_add_skipped(course, user) == course

\* new_course.users.add(self.request.user)
users_add(course, user) == [course EXCEPT !.users = @ \cup {user}]

\* CourseList.post from new_course.users.add() to the response.
CourseList_post_add(p) ==
    /\ p \in posting
    /\ posting' = posting \ {p}
    /\ IF p.pk \in DOMAIN db.Course
       THEN /\ db' = [db EXCEPT !.Course[p.pk] = users_add(@, p.user)]
            /\ resp' = Response("CourseList.post", p.user, p.pk, 201, {}, TRUE, FALSE)
       ELSE /\ db' = db
            /\ resp' = Response("CourseList.post", p.user, p.pk, 500, {}, TRUE, FALSE)
    /\ UNCHANGED <<nextId, created, creator>>

Listed(queryset, pk) == ~queryset.err /\ pk \in queryset.rows

CourseDetail_get(user, pk) ==
    retrieve("CourseDetail.get", user, CourseDetail_get_queryset(user),
             Listed(CourseList_get_queryset(user), pk), pk)

CourseDetail_put(user, pk, body) ==
    update("CourseDetail.put", user, CourseDetail_get_queryset(user),
           Listed(CourseList_get_queryset(user), pk),
           "CourseSerializer", "Course", pk, body)

CourseDetail_delete(user, pk) ==
    destroy("CourseDetail.delete", user, CourseDetail_get_queryset(user),
            Listed(CourseList_get_queryset(user), pk), "Course", pk)

\* ---------------------------------------------------------------- Lecture
LectureList_get(user) ==
    list("LectureList.get", user, LectureList_get_queryset(user))

LectureList_post(user, body) ==
    create("LectureList.post", user, "LectureSerializer", body)

LectureDetail_get(user, pk) ==
    http_method_not_allowed("LectureDetail.get", user,
                            Listed(LectureList_get_queryset(user), pk), pk)

LectureDetail_put(user, pk, body) ==
    update("LectureDetail.put", user, LectureDetail_get_queryset(user),
           Listed(LectureList_get_queryset(user), pk),
           "LectureSerializer", "Lecture", pk, body)

LectureDetail_delete(user, pk) ==
    destroy("LectureDetail.delete", user, LectureDetail_get_queryset(user),
            Listed(LectureList_get_queryset(user), pk), "Lecture", pk)

\* ---------------------------------------------------------------- Task
TaskList_get(user) ==
    list("TaskList.get", user, TaskList_get_queryset(user))

TaskList_post(user, body) ==
    create("TaskList.post", user, "TaskSerializer", body)

TaskDetail_get(user, pk) ==
    http_method_not_allowed("TaskDetail.get", user,
                            Listed(TaskList_get_queryset(user), pk), pk)

TaskDetail_put(user, pk, body) ==
    update("TaskDetail.put", user, TaskDetail_get_queryset(user),
           Listed(TaskList_get_queryset(user), pk),
           "TaskSerializer", "LectureTask", pk, body)

TaskDetail_delete(user, pk) ==
    destroy("TaskDetail.delete", user, TaskDetail_get_queryset(user),
            Listed(TaskList_get_queryset(user), pk), "LectureTask", pk)

\* ---------------------------------------------------------------- TaskControl
TaskControlList_get(user) ==
    list("TaskControlList.get", user, TaskControlList_get_queryset(user))

TaskControlList_post(user, body) ==
    create("TaskControlList.post", user, "TaskControlSerializer", body)

TaskControlDetail_get(user, pk) ==
    http_method_not_allowed("TaskControlDetail.get", user,
                            Listed(TaskControlList_get_queryset(user), pk), pk)

TaskControlDetail_put(user, pk, body) ==
    update("TaskControlDetail.put", user, TaskControlDetail_get_queryset(user),
           Listed(TaskControlList_get_queryset(user), pk),
           "TaskSerializer", "TaskControl", pk, body)

TaskControlDetail_delete(user, pk) ==
    destroy("TaskControlDetail.delete", user, TaskControlDetail_get_queryset(user),
            Listed(TaskControlList_get_queryset(user), pk), "TaskControl", pk)

\* ---------------------------------------------------------------- TaskComments
TaskCommentsList_get(user) ==
    list("TaskCommentsList.get", user, TaskCommentsList_get_queryset(user))

\* serializer_class is TaskControlSerializer: the row saved is a TaskControl.
TaskCommentsList_post(user, body) ==
    create("TaskCommentsList.post", user, "TaskControlSerializer", body)

TaskCommentsDetail_get(user, pk) ==
    http_method_not_allowed("TaskCommentsDetail.get", user,
                            Listed(TaskCommentsList_get_queryset(user), pk), pk)

TaskCommentsDetail_put(user, pk, body) ==
    update("TaskCommentsDetail.put", user, TaskCommentsDetail_get_queryset(user),
           Listed(TaskCommentsList_get_queryset(user), pk),
           "TaskSerializer", "TaskComments", pk, body)

TaskCommentsDetail_delete(user, pk) ==
    destroy("TaskCommentsDetail.delete", user, TaskCommentsDetail_get_queryset(user),
            Listed(TaskCommentsList_get_queryset(user), pk), "TaskComments", pk)

\* ---------------------------------------------------------------- system
\* The database at start-up: empty, or holding one ownership chain (a course
\* of u1 with one lecture, task, task control and comment) loaded beforehand.
EmptyDb == [m \in Models |-> EmptyTable]

LoadedDb ==
    [Course |-> Insert(EmptyTable, 1, [users |-> {"u1"}]),
     Lecture |-> Insert(EmptyTable, 1, [course |-> 1]),
     LectureTask |-> Insert(EmptyTable, 1, [lecture |-> 1]),
     TaskControl |-> Insert(EmptyTable, 1, [task |-> 1]),
     TaskComments |-> Insert(EmptyTable, 1, [taskcontrol |-> 1])]

Init ==
    /\ \E loaded \in BOOLEAN :
          /\ db = IF loaded THEN LoadedDb ELSE EmptyDb
          /\ nextId = [m \in Models |-> IF loaded THEN 2 ELSE 1]
    /\ posting = {}
    /\ creator = EmptyTable
    /\ created = 0
    /\ resp = NoResponse

Next ==
    \/ \E user \in Users : CourseList_get(user)
    \/ \E user \in Users, body \in Body("CourseSerializer") : CourseList_post_save(user, body)
    \/ \E p \in posting : CourseList_post_add(p)
    \/ \E user \in Users, pk \in Ids : CourseDetail_get(user, pk)
    \/ \E user \in Users, pk \in Ids, body \in Body("CourseSerializer") :
          CourseDetail_put(user, pk, body)
    \/ \E user \in Users, pk \in Ids : CourseDetail_delete(user, pk)
    \/ \E user \in Users : LectureList_get(user)
    \/ \E user \in Users, body \in Body("LectureSerializer") : LectureList_post(user, body)
    \/ \E user \in Users, pk \in Ids : LectureDetail_get(user, pk)
    \/ \E user \in Users, pk \in Ids, body \in Body("LectureSerializer") :
          LectureDetail_put(user, pk, body)
    \/ \E user \in Users, pk \in Ids : LectureDetail_delete(user, pk)
    \/ \E user \in Users : TaskList_get(user)
    \/ \E user \in Users, body \in Body("TaskSerializer") : TaskList_post(user, body)
    \/ \E user \in Users, pk \in Ids : TaskDetail_get(user, pk)
    \/ \E user \in Users, pk \in Ids, body \in Body("TaskSerializer") :
          TaskDetail_put(user, pk, body)
    \/ \E user \in Users, pk \in Ids : TaskDetail_delete(user, pk)
    \/ \E user \in Users : TaskControlList_get(user)
    \/ \E user \in Users, body \in Body("TaskControlSerializer") :
          TaskControlList_post(user, body)
    \/ \E user \in Users, pk \in Ids : TaskControlDetail_get(user, pk)
    \/ \E user \in Users, pk \in Ids, body \in Body("TaskSerializer") :
          TaskControlDetail_put(user, pk, body)
    \/ \E user \in Users, pk \in Ids : TaskControlDetail_delete(user, pk)
    \/ \E user \in Users : TaskCommentsList_get(user)
    \/ \E user \in Users, body \in Body("TaskControlSerializer") :
          TaskCommentsList_post(user, body)
    \/ \E user \in Users, pk \in Ids : TaskCommentsDetail_get(user, pk)
    \/ \E user \in Users, pk \in Ids, body \in Body("TaskSerializer") :
          TaskCommentsDetail_put(user, pk, body)
    \/ \E user \in Users, pk \in Ids : TaskCommentsDetail_delete(user, pk)

Spec == Init /\ [][Next]_vars

\* ---------------------------------------------------------------- properties
ListOps == {"CourseList.get", "LectureList.get", "TaskList.get",
            "TaskControlList.get", "TaskCommentsList.get"}

PostOps == {"CourseList.post", "LectureList.post", "TaskList.post",
            "TaskControlList.post", "TaskCommentsList.post"}

PutOps == {"CourseDetail.put", "LectureDetail.put", "TaskDetail.put",
           "TaskControlDetail.put", "TaskCommentsDetail.put"}

DeleteOps == {"CourseDetail.delete", "LectureDetail.delete", "TaskDetail.delete",
              "TaskControlDetail.delete", "TaskCommentsDetail.delete"}

DetailGetOps == {"CourseDetail.get", "LectureDetail.get", "TaskDetail.get",
                 "TaskControlDetail.get", "TaskCommentsDetail.get"}

\* The model whose rows a view serves.
ModelOf(op) ==
    CASE op \in {"CourseList.get", "CourseList.post", "CourseDetail.get",
                 "CourseDetail.put", "CourseDetail.delete"} -> "Course"
      [] op \in {"LectureList.get", "LectureList.post", "LectureDetail.get",
                 "LectureDetail.put", "LectureDetail.delete"} -> "Lecture"
      [] op \in {"TaskList.get", "TaskList.post", "TaskDetail.get",
                 "TaskDetail.put", "TaskDetail.delete"} -> "LectureTask"
      [] op \in {"TaskControlList.get", "TaskControlList.post", "TaskControlDetail.get",
                 "TaskControlDetail.put", "TaskControlDetail.delete"} -> "TaskControl"
      [] OTHER -> "TaskComments"

\* The users of the Course that owns row pk of a model, read off the rows.
OwnerUsers(model, pk) ==
    CASE model = "Course" -> db.Course[pk].users
      [] model = "Lecture" -> db.Course[db.Lecture[pk].course].users
      [] model = "LectureTask" ->
             db.Course[db.Lecture[db.LectureTask[pk].lecture].course].users
      [] model = "TaskControl" ->
             db.Course[db.Lecture[db.LectureTask[db.TaskControl[pk].task].lecture]
                           .course].users
      [] model = "TaskComments" ->
             db.Course[db.Lecture[db.LectureTask[
                 db.TaskControl[db.TaskComments[pk].taskcontrol].task].lecture]
                           .course].users

Reached == resp.status \in {200, 204, 400}

\* C1: a list GET on CourseList, LectureList or TaskList by user u returns only
\* rows whose owning Course has u among its users, and CourseDetail GET by u
\* returns a course only if u is one of its users.
C1_ListsOnlyOwnRows ==
    /\ resp.op \in {"CourseList.get", "LectureList.get", "TaskList.get"} =>
           \A k \in resp.rows :
               /\ k \in DOMAIN db[ModelOf(resp.op)]
               /\ resp.user \in OwnerUsers(ModelOf(resp.op), k)
    /\ (resp.op = "CourseDetail.get" /\ resp.status = 200) =>
           /\ resp.pk \in DOMAIN db.Course
           /\ resp.user \in db.Course[resp.pk].users

\* C1 witness: u2, who owns nothing at start-up, is shown a lecture.
C1_Witness ==
    resp.op = "LectureList.get" /\ resp.user = "u2" /\ resp.rows # {}

C3_InvalidAlways400 ==
    [][(resp'.op \in PostOps \cup PutOps /\ ~resp'.valid) =>
           (resp'.status = 400 /\ db' = db)]_vars

\* C3 (amended): a POST whose body fails validation is answered 400; a PUT
\* whose body fails validation is answered 400 when the addressed row is in
\* the caller's detail queryset, 404 when it is not, and 500 on
\* TaskCommentsDetail, whose queryset cannot be built; no row and no
\* membership changes in any of these cases.
C3_InvalidNeverPersists ==
    [][(resp'.op \in PostOps \cup PutOps /\ ~resp'.valid) =>
           /\ db' = db
           /\ nextId' = nextId
           /\ resp'.op \in PostOps => resp'.status = 400
           /\ resp'.op \in PutOps \ {"TaskCommentsDetail.put"} =>
                  resp'.status = IF resp'.listed THEN 400 ELSE 404
           /\ resp'.op = "TaskCommentsDetail.put" => resp'.status = 500]_vars

\* C3 witness: an invalid PUT on a row of the caller's queryset, answered 400.
C3_Witness ==
    resp.op = "LectureDetail.put" /\ ~resp.valid /\ resp.listed /\ resp.status = 400

\* Primary keys that were issued and whose row is gone.
Gone(model) == {k \in Ids : k < nextId[model] /\ k \notin DOMAIN db[model]}

C5_WritesStayInOwnCourses ==
    /\ (resp.op \in {"LectureList.post", "TaskList.post"} /\ resp.status = 201) =>
           resp.user \in OwnerUsers(ModelOf(resp.op), resp.pk)
    /\ (resp.op \in {"LectureDetail.put", "TaskDetail.put"} /\ resp.status = 200) =>
           /\ resp.listed
           /\ resp.user \in OwnerUsers(ModelOf(resp.op), resp.pk)
    /\ (resp.op \in {"LectureDetail.delete", "TaskDetail.delete"}
          /\ resp.status = 204) => resp.listed

\* C6: a PUT or DELETE on a detail endpoint for a primary key that does not
\* exist, or that is outside the caller's ownership-filtered rows, is answered
\* 404 and changes no row and no membership.
C6_MissingIs404 ==
    [][(resp'.op \in PutOps \cup DeleteOps /\ ~resp'.listed) =>
           (resp'.status = 404 /\ db' = db)]_vars

\* C7 (as claimed): TaskControlList and TaskCommentsList GET return every
\* persisted row whatever the caller's courses, and TaskControlDetail and
\* TaskCommentsDetail PUT and DELETE reach every existing row.
C7_OpenAccess ==
    /\ resp.op \in {"TaskControlList.get", "TaskCommentsList.get"} =>
           resp.rows = DOMAIN db[ModelOf(resp.op)]
    /\ (/\ resp.op \in {"TaskControlDetail.put", "TaskControlDetail.delete",
                        "TaskCommentsDetail.put", "TaskCommentsDetail.delete"}
        /\ resp.pk \in DOMAIN db[ModelOf(resp.op)]) => resp.status \in {200, 400}

\* C7 (amended): TaskControlList and TaskCommentsList GET return exactly the
\* rows whose owning Course has the caller among its users; TaskControlDetail
\* PUT and DELETE reach exactly those rows, and TaskCommentsDetail PUT and
\* DELETE reach no row whose owning Course lacks the caller.
C7_OwnershipScoped ==
    /\ (resp.op \in {"TaskControlList.get", "TaskCommentsList.get"}) =>
           /\ resp.status = 200
           /\ resp.rows = {k \in DOMAIN db[ModelOf(resp.op)] :
                              resp.user \in OwnerUsers(ModelOf(resp.op), k)}
    /\ resp.op \in {"TaskControlDetail.put", "TaskControlDetail.delete"} =>
           (Reached <=> resp.listed)
    /\ resp.op \in {"TaskCommentsDetail.put", "TaskCommentsDetail.delete"} =>
           (Reached => resp.listed)

\* C7 witness: a TaskControlList GET that leaves out an existing row.
C7_Witness ==
    resp.op = "TaskControlList.get" /\ resp.rows # DOMAIN db.TaskControl

\* C8: on every detail endpoint a GET for primary key k returns row k when it
\* is within the caller's ownership-filtered rows and 404 otherwise.
C8_DetailGetContract ==
    resp.op \in DetailGetOps =>
        IF resp.listed THEN resp.status = 200 /\ resp.rows = {resp.pk}
        ELSE resp.status = 404

\* C9: in every reachable state, the intermediate states of CourseList.post
\* included, every persisted Course created through CourseList.post has its
\* creator among its users.
C9_CreatorAlwaysMember ==
    \A c \in DOMAIN creator :
        c \in DOMAIN db.Course => creator[c] \in db.Course[c].users

\* C10: for every resource and user, a row is reached through the detail
\* endpoint (PUT, DELETE, and GET where offered) if and only if the matching
\* list endpoint returns it to that user.
C10_DetailMatchesList ==
    resp.op \in PutOps \cup DeleteOps \cup {"CourseDetail.get"} =>
        (Reached <=> resp.listed)

====
